---- MODULE Spec2Model ----
(***************************************************************************)
(* Model of mcp-iso8859-writer: the three operation handlers               *)
(* (write_file_iso, edit_file_iso, read_file_iso), the validators, the     *)
(* line-ending detector, the backup manager and the filesystem they act    *)
(* on.  Text is a sequence of character tokens; "CR" and "LF" are the two  *)
(* control characters the code looks at.                                   *)
(***************************************************************************)
EXTENDS Integers, Sequences, FiniteSets, TLC

\* ------------------------------------------------------------------ bounds
MaxLen == 3          \* longest initial file content, in characters
MaxNewLen == 2       \* longest replacement text, in characters
NumRequests == 2     \* handler invocations in the concurrent specification
MaxTime == 1         \* last value of the millisecond clock
MaxEncLen == 3       \* longest text given to create or edit in the encoding specification

\* ------------------------------------------------------------- text basics
CR == "CR"
LF == "LF"
CRLF == <<CR, LF>>
BareLF == <<LF>>

RECURSIVE TextsUpTo(_, _)
TextsUpTo(alphabet, n) ==
    IF n = 0 THEN {<<>>}
    ELSE LET shorter == TextsUpTo(alphabet, n - 1)
         IN  shorter \cup {Append(t, c) : t \in {s \in shorter : Len(s) = n - 1}, c \in alphabet}

Drop(s, n) == SubSeq(s, n + 1, Len(s))
Take(s, n) == SubSeq(s, 1, n)

\* length of the match of /\r?\n/ that starts at position i of s (0: none)
TerminatorAt(s, i) ==
    IF s[i] = CR /\ i < Len(s) /\ s[i + 1] = LF THEN 2
    ELSE IF s[i] = LF THEN 1
    ELSE 0

\* position of the leftmost match of /\r?\n/ at or after i (0: none)
RECURSIVE NextTerminator(_, _)
NextTerminator(s, i) ==
    IF i > Len(s) THEN 0
    ELSE IF TerminatorAt(s, i) > 0 THEN i
    ELSE NextTerminator(s, i + 1)

\* variant: a trailing terminator yields no final empty line
RECURSIVE Split_noTrailing(_)
Split_noTrailing(s) ==
    LET i == NextTerminator(s, 1)
        rest == Drop(s, i - 1 + TerminatorAt(s, i))
    IN  IF i = 0 THEN <<s>>
        ELSE IF Len(rest) = 0 THEN <<Take(s, i - 1)>>
        ELSE <<Take(s, i - 1)>> \o Split_noTrailing(rest)

\* variant: the empty string yields no line at all
RECURSIVE Split_emptyNone(_)
Split_emptyNone(s) ==
    LET i == NextTerminator(s, 1)
        rest == Drop(s, i - 1 + TerminatorAt(s, i))
    IN  IF Len(s) = 0 THEN <<>>
        ELSE IF i = 0 THEN <<s>>
        ELSE IF Len(rest) = 0 THEN <<Take(s, i - 1), <<>>>>
        ELSE <<Take(s, i - 1)>> \o Split_emptyNone(rest)

\* String.prototype.split(/\r?\n/)
RECURSIVE Split(_)
Split(s) ==
    LET i == NextTerminator(s, 1)
    IN  IF i = 0 THEN <<s>>
        ELSE <<Take(s, i - 1)>> \o Split(Drop(s, i - 1 + TerminatorAt(s, i)))

\* variant: a separator follows the last line too
RECURSIVE Join_trailing(_, _)
Join_trailing(lines, sep) ==
    IF Len(lines) = 0 THEN <<>>
    ELSE lines[1] \o sep \o Join_trailing(Tail(lines), sep)

\* variant: the lines are joined with LF whatever the separator
RECURSIVE Join_lf(_, _)
Join_lf(lines, sep) ==
    IF Len(lines) = 0 THEN <<>>
    ELSE IF Len(lines) = 1 THEN lines[1]
    ELSE lines[1] \o <<LF>> \o Join_lf(Tail(lines), sep)

\* Array.prototype.join(sep)
RECURSIVE Join(_, _)
Join(lines, sep) ==
    IF Len(lines) = 0 THEN <<>>
    ELSE IF Len(lines) = 1 THEN lines[1]
    ELSE lines[1] \o sep \o Join(Tail(lines), sep)

\* Array.prototype.splice(start, deleteCount, ...items), start within bounds
Splice(lines, start, deleteCount, items) ==
    Take(lines, start) \o items \o Drop(lines, start + deleteCount)

\* number of matches of /\r\n/g: the scan resumes after each match
RECURSIVE CountCRLF(_, _)
CountCRLF(s, i) ==
    IF i >= Len(s) THEN 0
    ELSE IF s[i] = CR /\ s[i + 1] = LF THEN 1 + CountCRLF(s, i + 2)
    ELSE CountCRLF(s, i + 1)

\* number of matches of /(?<!\r)\n/g
RECURSIVE CountLF(_, _)
CountLF(s, i) ==
    IF i > Len(s) THEN 0
    ELSE IF s[i] = LF /\ (i = 1 \/ s[i - 1] # CR) THEN 1 + CountLF(s, i + 1)
    ELSE CountLF(s, i + 1)

\* variant: CRLF wins a tie
detectLineEnding_tie(content, EOL) ==
    LET crlf == CountCRLF(content, 1)
        lf == CountLF(content, 1)
    IN  IF crlf >= lf /\ crlf > 0 THEN CRLF
        ELSE IF lf > 0 THEN BareLF
        ELSE EOL

detectLineEnding(content, EOL) ==
    LET crlf == CountCRLF(content, 1)
        lf == CountLF(content, 1)
    IN  IF crlf > lf THEN CRLF
        ELSE IF lf > 0 THEN BareLF
        ELSE EOL

\* ------------------------------------------------------------- validators
\* an error message: its fixed wording and the numbers interpolated into it
Message(msg, nums) == [msg |-> msg, nums |-> nums]
NoError == Message("undefined", <<>>)

\* variant: the upper bound of endLine is not checked
validateLineRange_noEndBound(startLine, endLine, totalLines) ==
    IF startLine < 1 THEN
        [valid |-> FALSE, error |-> Message("startLine must be >= 1 (got N)", <<startLine>>)]
    ELSE IF endLine < 1 THEN
        [valid |-> FALSE, error |-> Message("endLine must be >= 1 (got N)", <<endLine>>)]
    ELSE IF startLine > endLine THEN
        [valid |-> FALSE, error |-> Message("startLine (N) > endLine (N)", <<startLine, endLine>>)]
    ELSE IF startLine > totalLines THEN
        [valid |-> FALSE,
         error |-> Message("startLine (N) exceeds file length (N lines)", <<startLine, totalLines>>)]
    ELSE [valid |-> TRUE, error |-> NoError]

\* variant: the two file-length checks are made in the other order
validateLineRange_endFirst(startLine, endLine, totalLines) ==
    IF startLine < 1 THEN
        [valid |-> FALSE, error |-> Message("startLine must be >= 1 (got N)", <<startLine>>)]
    ELSE IF endLine < 1 THEN
        [valid |-> FALSE, error |-> Message("endLine must be >= 1 (got N)", <<endLine>>)]
    ELSE IF startLine > endLine THEN
        [valid |-> FALSE, error |-> Message("startLine (N) > endLine (N)", <<startLine, endLine>>)]
    ELSE IF endLine > totalLines THEN
        [valid |-> FALSE,
         error |-> Message("endLine (N) exceeds file length (N lines)", <<endLine, totalLines>>)]
    ELSE IF startLine > totalLines THEN
        [valid |-> FALSE,
         error |-> Message("startLine (N) exceeds file length (N lines)", <<startLine, totalLines>>)]
    ELSE [valid |-> TRUE, error |-> NoError]

validateLineRange(startLine, endLine, totalLines) ==
    IF startLine < 1 THEN
        [valid |-> FALSE, error |-> Message("startLine must be >= 1 (got N)", <<startLine>>)]
    ELSE IF endLine < 1 THEN
        [valid |-> FALSE, error |-> Message("endLine must be >= 1 (got N)", <<endLine>>)]
    ELSE IF startLine > endLine THEN
        [valid |-> FALSE, error |-> Message("startLine (N) > endLine (N)", <<startLine, endLine>>)]
    ELSE IF startLine > totalLines THEN
        [valid |-> FALSE,
         error |-> Message("startLine (N) exceeds file length (N lines)", <<startLine, totalLines>>)]
    ELSE IF endLine > totalLines THEN
        [valid |-> FALSE,
         error |-> Message("endLine (N) exceeds file length (N lines)", <<endLine, totalLines>>)]
    ELSE [valid |-> TRUE, error |-> NoError]

\* ------------------------------------------------------------------ paths
\* A path is a sequence of character tokens; "/" separates segments.
SEP == "/"
DOT == "."
DotDot == <<DOT, DOT>>

isAbsolute(p) == Len(p) > 0 /\ p[1] = SEP

RECURSIVE NextSep(_, _)
NextSep(p, i) ==
    IF i > Len(p) THEN 0
    ELSE IF p[i] = SEP THEN i
    ELSE NextSep(p, i + 1)

\* the non-empty segments of a path string
RECURSIVE Segments(_)
Segments(p) ==
    LET i == NextSep(p, 1)
    IN  IF Len(p) = 0 THEN <<>>
        ELSE IF i = 0 THEN <<p>>
        ELSE IF i = 1 THEN Segments(Drop(p, 1))
        ELSE <<Take(p, i - 1)>> \o Segments(Drop(p, i))

\* collapse "." and ".." segments of an absolute path (".." at the root stays at the root)
RECURSIVE Collapse(_, _)
Collapse(done, segs) ==
    IF Len(segs) = 0 THEN done
    ELSE IF Head(segs) = <<DOT>> THEN Collapse(done, Tail(segs))
    ELSE IF Head(segs) = DotDot THEN
        Collapse(IF Len(done) = 0 THEN done ELSE Take(done, Len(done) - 1), Tail(segs))
    ELSE Collapse(Append(done, Head(segs)), Tail(segs))

RECURSIVE JoinSegs(_)
JoinSegs(segs) ==
    IF Len(segs) = 0 THEN <<>>
    ELSE IF Len(segs) = 1 THEN segs[1]
    ELSE segs[1] \o <<SEP>> \o JoinSegs(Tail(segs))

AbsPath(segs) == <<SEP>> \o JoinSegs(segs)

\* path.resolve(p) with the given working directory; the result is normalized
resolve(cwd, p) ==
    IF isAbsolute(p) THEN AbsPath(Collapse(<<>>, Segments(p)))
    ELSE AbsPath(Collapse(<<>>, Segments(cwd) \o Segments(p)))

\* path.normalize of an already resolved path
normalize(p) == AbsPath(Collapse(<<>>, Segments(p)))

\* String.prototype.startsWith
startsWith(s, prefix) == Len(prefix) <= Len(s) /\ Take(s, Len(prefix)) = prefix

\* validators.ts line 3: BASE_PATH = process.env.MCP_ISO_BASE_PATH || process.cwd()
BasePathOf(envBasePath, cwd) == IF Len(envBasePath) > 0 THEN envBasePath ELSE cwd

\* variant: every path is accepted, resolved against the working directory
validatePath_open(filePath, cwd, BASE_PATH) ==
    [valid |-> TRUE, normalizedPath |-> normalize(resolve(cwd, filePath)), error |-> NoError]

validatePath(filePath, cwd, BASE_PATH) ==
    IF ~isAbsolute(filePath) THEN
        [valid |-> FALSE, normalizedPath |-> <<>>, error |-> Message("Path must be absolute", <<>>)]
    ELSE LET normalizedPath == normalize(resolve(cwd, filePath))
             normalizedBase == normalize(resolve(cwd, BASE_PATH))
         IN  IF Len(BASE_PATH) > 0 /\ ~startsWith(normalizedPath, normalizedBase) THEN
                 [valid |-> FALSE, normalizedPath |-> normalizedPath,
                  error |-> Message("Path must be inside BASE_PATH", <<>>)]
             ELSE [valid |-> TRUE, normalizedPath |-> normalizedPath, error |-> NoError]

\* length of the common leading segments of two segment lists
RECURSIVE CommonPrefix(_, _)
CommonPrefix(a, b) ==
    IF Len(a) = 0 \/ Len(b) = 0 \/ Head(a) # Head(b) THEN 0
    ELSE 1 + CommonPrefix(Tail(a), Tail(b))

\* path.relative(from, to) of two resolved paths, as a relative path string
relative(from, to) ==
    LET f == Segments(from)
        t == Segments(to)
        k == CommonPrefix(f, t)
    IN  JoinSegs([i \in 1..(Len(f) - k) |-> DotDot] \o Drop(t, k))

\* path.dirname of a relative path string
dirname(rel) ==
    LET segs == Segments(rel)
    IN  IF Len(segs) <= 1 THEN <<DOT>> ELSE JoinSegs(Take(segs, Len(segs) - 1))

\* path.basename
basename(p) == LET segs == Segments(p) IN IF Len(segs) = 0 THEN <<>> ELSE segs[Len(segs)]

\* path.join(a, b) with a absolute
join(a, b) == normalize(a \o <<SEP>> \o b)

BackupNamespace == <<".mcp-iso8859-writer">>
External == <<"external">>

\* utils.ts getBackupRoot
getBackupRoot(envBackupRoot, cwd) ==
    IF Len(envBackupRoot) > 0 THEN resolve(cwd, envBackupRoot) ELSE cwd

\* utils.ts createBackup lines 25-36: the directory the backup is placed in
BackupDirOf(projectRoot, filePath) ==
    LET backupBaseDir == join(projectRoot, BackupNamespace)
        relativePath == relative(projectRoot, filePath)
        relativeDir == dirname(relativePath)
    IN  IF relativeDir = <<DOT>> \/ startsWith(relativePath, DotDot)
        THEN join(backupBaseDir, External)
        ELSE join(backupBaseDir, relativeDir)

\* utils.ts createBackup lines 42-43: <backupDir>/<fileName>.backup.<Date.now()>
BackupPathOf(projectRoot, filePath, now) ==
    [dir |-> BackupDirOf(projectRoot, filePath), file |-> basename(filePath), ts |-> now]

\* --------------------------------------------------------------- encoding
\* ISO-8859-1 code of each character of the repertoire that the model uses
Latin1Code ==
    [c \in {"a", "b", "x", "y", "?", CR, LF, "i-diaeresis", "inverted-?", "one-half"} |->
        CASE c = "a" -> 97 [] c = "b" -> 98 [] c = "x" -> 120 [] c = "y" -> 121
          [] c = "?" -> 63 [] c = CR -> 13 [] c = LF -> 10
          [] c = "i-diaeresis" -> 239 [] c = "inverted-?" -> 191 [] c = "one-half" -> 189]

Latin1 == DOMAIN Latin1Code
\* characters outside the ISO-8859-1 repertoire
Euro == "euro"

\* iconv.encode(text, 'iso-8859-1'): one byte per character, "?" for the unencodable
encode(text) ==
    [i \in 1..Len(text) |-> IF text[i] \in Latin1 THEN Latin1Code[text[i]] ELSE Latin1Code["?"]]

\* variant: bytes above 127 decode to "?"
decode_7bit(bytes) ==
    [i \in 1..Len(bytes) |->
        IF bytes[i] > 127 THEN "?" ELSE CHOOSE c \in Latin1 : Latin1Code[c] = bytes[i]]

\* iconv.decode(bytes, 'iso-8859-1'): the character whose code is the byte
decode(bytes) ==
    [i \in 1..Len(bytes) |-> CHOOSE c \in Latin1 : Latin1Code[c] = bytes[i]]

\* the three characters that the bytes EF BF BD decode to
Marker == <<"i-diaeresis", "inverted-?", "one-half">>

\* variant: every i-diaeresis counts as a marker
RECURSIVE CountMarker_single(_, _)
CountMarker_single(content, i) ==
    IF i > Len(content) THEN 0
    ELSE IF content[i] = "i-diaeresis" THEN 1 + CountMarker_single(content, i + 1)
    ELSE CountMarker_single(content, i + 1)

\* number of matches of the marker /.../g in content: the scan resumes after a match
RECURSIVE CountMarker(_, _)
CountMarker(content, i) ==
    IF i + 2 > Len(content) THEN 0
    ELSE IF SubSeq(content, i, i + 2) = Marker THEN 1 + CountMarker(content, i + 3)
    ELSE CountMarker(content, i + 1)

\* utils.ts verifyEncoding, given the bytes read from the file
verifyEncoding(fileBuffer) ==
    LET content == decode(fileBuffer)
        corruptionCount == CountMarker(content, 1)
    IN  [encoding |-> "iso-8859-1", corruptionCount |-> corruptionCount,
         isClean |-> corruptionCount = 0]

\* ------------------------------------------------------------------ state
Requests == 1..NumRequests          \* invocations of the concurrent specification
SeqRequests == 1..3                 \* read, then one operation, then read
AllRequests == Requests \cup SeqRequests

VARIABLES
    now,          \* Date.now(), in milliseconds
    host,         \* fixed at process start: cwd, os.EOL, the constant BASE_PATH
    env,          \* process.env as read by getBackupRoot at each call
    files,        \* the filesystem: path -> bytes, temporary files included
    backups,      \* the backup store: backup path -> bytes
    activeFiles,  \* write-file-atomic: absolute name -> queue of pending writes
    pc,           \* position of each handler invocation
    args,         \* arguments of each invocation
    local,        \* local variables of each invocation
    response,     \* value returned by each invocation
    atCall,       \* history: the filesystem when the invocation was made
    crashed       \* the process was killed

vars == <<now, host, env, files, backups, activeFiles, pc, args, local, response, atCall, crashed>>

Put(f, k, v) == [x \in DOMAIN f \cup {k} |-> IF x = k THEN v ELSE f[x]]
Remove(f, k) == [x \in DOMAIN f \ {k} |-> f[x]]
existsSync(fs, p) == p \in DOMAIN fs

NoArgs == [op |-> "none"]
NoBackup == [dir |-> <<>>, file |-> <<>>, ts |-> 0 - 1]
NoLocal ==
    [normalizedPath |-> <<>>, backupPath |-> NoBackup, fileBuffer |-> <<>>,
     lineEnding |-> <<>>, totalLines |-> 0, rangeValidation |-> [valid |-> FALSE, error |-> NoError],
     lines |-> <<>>, linesReplaced |-> 0, iso8859Content |-> <<>>, tmpfile |-> <<>>]
NoResponse == [returned |-> FALSE]

\* variant: the failure leaves the handler, no response is produced
ErrorResponse_thrown(error) == [returned |-> FALSE]

\* the catch block of each handler: { content: "Error: <message>", isError: true }
ErrorResponse(error) == [returned |-> TRUE, isError |-> TRUE, message |-> error]

\* ------------------------------------------------------- write-file-atomic
\* variant: the data is written in place, into the target itself
getTmpname_inPlace(truename, r) == truename

\* getTmpname: a name beside the target that is unique to the invocation
getTmpname(truename, r) == truename \o <<DOT, ToString(r)>>

Queue(name) == IF name \in DOMAIN activeFiles THEN activeFiles[name] ELSE <<>>

\* variant: a new write goes to the head of the queue
serializeActiveFile_front(name, r) == Put(activeFiles, name, <<r>> \o Queue(name))

\* serializeActiveFile: append the write to the queue of its absolute name
serializeActiveFile(name, r) == Put(activeFiles, name, Append(Queue(name), r))

\* the finally block: drop the head of the queue, delete the entry when it is empty
releaseActiveFile(name) ==
    IF Len(Queue(name)) <= 1 THEN Remove(activeFiles, name)
    ELSE Put(activeFiles, name, Tail(Queue(name)))

\* fs.rename(tmpfile, truename)
rename(fs, tmpfile, truename) == Put(Remove(fs, tmpfile), truename, fs[tmpfile])

\* fs.unlink(tmpfile).catch(() => {})
unlink(fs, tmpfile) == Remove(fs, tmpfile)

\* ------------------------------------------------------------ backup store
\* variant: the copy is empty
copyFileSync_empty(store, fs, filePath, backupPath) == Put(store, backupPath, <<>>)

\* utils.ts createBackup line 44: copyFileSync(filePath, backupPath) overwrites
copyFileSync(store, fs, filePath, backupPath) == Put(store, backupPath, fs[filePath])

\* variant: no copy is made
createBackup_none(store, fs, filePath, projectRoot, t) == store

createBackup(store, fs, filePath, projectRoot, t) ==
    copyFileSync(store, fs, filePath, BackupPathOf(projectRoot, filePath, t))

\* --------------------------------------------------------------- handlers
Return(r, resp) ==
    /\ pc' = [pc EXCEPT ![r] = "done"]
    /\ response' = [response EXCEPT ![r] = resp]

Invoke(r, a) ==
    /\ ~crashed
    /\ pc[r] = "idle"
    /\ args' = [args EXCEPT ![r] = a]
    /\ atCall' = [atCall EXCEPT ![r] = files]

\* handleWriteFileIso, lines 11-18: up to the call of writeFileAtomic
handleWriteFileIso(r, filePath, content) ==
    /\ Invoke(r, [op |-> "write", filePath |-> filePath, content |-> content])
    /\ LET pathValidation == validatePath(filePath, host.cwd, host.BASE_PATH)
       IN  IF ~pathValidation.valid THEN
               /\ Return(r, ErrorResponse(pathValidation.error))
               /\ UNCHANGED <<local, activeFiles>>
           ELSE
               /\ local' = [local EXCEPT ![r] =
                      [NoLocal EXCEPT !.normalizedPath = pathValidation.normalizedPath,
                                      !.iso8859Content = encode(content)]]
               /\ activeFiles' = serializeActiveFile(pathValidation.normalizedPath, r)
               /\ pc' = [pc EXCEPT ![r] = "queued"]
               /\ UNCHANGED response
    /\ UNCHANGED <<now, host, env, files, backups, crashed>>

\* handleEditFileIso, lines 57-95: up to the call of writeFileAtomic.  copyOk and
\* readOk say whether copyFileSync (with mkdirSync) and readFileSync succeed.
handleEditFileIso(r, filePath, startLine, endLine, newContent, copyOk, readOk) ==
    /\ Invoke(r, [op |-> "edit", filePath |-> filePath, startLine |-> startLine,
                  endLine |-> endLine, newContent |-> newContent])
    /\ LET pathValidation == validatePath(filePath, host.cwd, host.BASE_PATH)
           normalizedPath == pathValidation.normalizedPath
           projectRoot == getBackupRoot(env.MCP_ISO_BACKUP_ROOT, host.cwd)
           backupPath == BackupPathOf(projectRoot, normalizedPath, now)
           fileBuffer == files[normalizedPath]
           fileContent == decode(fileBuffer)
           lineEnding == detectLineEnding(fileContent, host.EOL)
           lines == Split(fileContent)
           totalLines == Len(lines)
           rangeValidation == validateLineRange(startLine, endLine, totalLines)
           newLines == Split(newContent)
           linesReplaced == endLine - startLine + 1
           spliced == Splice(lines, startLine - 1, linesReplaced, newLines)
           updatedContent == Join(spliced, lineEnding)
           l1 == [NoLocal EXCEPT !.normalizedPath = normalizedPath]
           l2 == [l1 EXCEPT !.backupPath = backupPath]
           l3 == [l2 EXCEPT !.fileBuffer = fileBuffer, !.lineEnding = lineEnding,
                            !.totalLines = totalLines, !.rangeValidation = rangeValidation]
           l4 == [l3 EXCEPT !.lines = spliced, !.linesReplaced = linesReplaced,
                            !.iso8859Content = encode(updatedContent)]
       IN  IF ~pathValidation.valid THEN
               /\ Return(r, ErrorResponse(pathValidation.error))
               /\ UNCHANGED <<local, backups, activeFiles>>
           ELSE IF ~existsSync(files, normalizedPath) THEN
               /\ Return(r, ErrorResponse(Message("File does not exist", <<>>)))
               /\ local' = [local EXCEPT ![r] = l1]
               /\ UNCHANGED <<backups, activeFiles>>
           ELSE IF ~copyOk THEN
               /\ Return(r, ErrorResponse(Message("copyFileSync failed", <<>>)))
               /\ local' = [local EXCEPT ![r] = l1]
               /\ UNCHANGED <<backups, activeFiles>>
           ELSE
               /\ backups' = createBackup(backups, files, normalizedPath, projectRoot, now)
               /\ IF ~readOk THEN
                      /\ Return(r, ErrorResponse(Message("readFileSync failed", <<>>)))
                      /\ local' = [local EXCEPT ![r] = l2]
                      /\ UNCHANGED activeFiles
                  ELSE IF ~rangeValidation.valid THEN
                      /\ Return(r, ErrorResponse(rangeValidation.error))
                      /\ local' = [local EXCEPT ![r] = l3]
                      /\ UNCHANGED activeFiles
                  ELSE
                      /\ local' = [local EXCEPT ![r] = l4]
                      /\ activeFiles' = serializeActiveFile(normalizedPath, r)
                      /\ pc' = [pc EXCEPT ![r] = "queued"]
                      /\ UNCHANGED response
    /\ UNCHANGED <<now, host, env, files, crashed>>

\* handleReadFileIso: the whole handler runs without suspension
handleReadFileIso(r, filePath, readOk) ==
    /\ Invoke(r, [op |-> "read", filePath |-> filePath])
    /\ LET pathValidation == validatePath(filePath, host.cwd, host.BASE_PATH)
           normalizedPath == pathValidation.normalizedPath
           content == decode(files[normalizedPath])
           lineEnding == detectLineEnding(content, host.EOL)
           lines == Len(Split(content))
       IN  IF ~pathValidation.valid THEN
               Return(r, ErrorResponse(pathValidation.error))
           ELSE IF ~existsSync(files, normalizedPath) THEN
               Return(r, ErrorResponse(Message("File does not exist", <<>>)))
           ELSE IF ~readOk THEN
               Return(r, ErrorResponse(Message("readFileSync failed", <<>>)))
           ELSE
               Return(r, [returned |-> TRUE, isError |-> FALSE, success |-> TRUE,
                          path |-> normalizedPath, content |-> content, lines |-> lines,
                          line_ending |-> IF lineEnding = CRLF THEN "CRLF" ELSE "LF"])
    /\ UNCHANGED <<now, host, env, files, backups, activeFiles, local, crashed>>

\* writeFileAtomic fails: the temporary file is unlinked, the queue released and
\* the rejection reaches the catch block of the handler
WriteFailed(r, error) ==
    /\ files' = unlink(files, local[r].tmpfile)
    /\ activeFiles' = releaseActiveFile(local[r].normalizedPath)
    /\ Return(r, ErrorResponse(error))
    /\ UNCHANGED local

\* writeFileAtomic: once the write is at the head of its queue, open the temporary file
OpenTmp(r, ok) ==
    /\ ~crashed
    /\ pc[r] = "queued"
    /\ Head(Queue(local[r].normalizedPath)) = r
    /\ LET tmpfile == getTmpname(local[r].normalizedPath, r)
       IN  IF ok THEN
               /\ files' = Put(files, tmpfile, <<>>)
               /\ local' = [local EXCEPT ![r].tmpfile = tmpfile]
               /\ pc' = [pc EXCEPT ![r] = "opened"]
               /\ UNCHANGED <<activeFiles, response>>
           ELSE
               /\ activeFiles' = releaseActiveFile(local[r].normalizedPath)
               /\ Return(r, ErrorResponse(Message("writeFileAtomic failed", <<>>)))
               /\ UNCHANGED <<files, local>>
    /\ UNCHANGED <<now, host, env, backups, args, atCall, crashed>>

\* writeFileAtomic: write the data into the temporary file
WriteTmp(r, ok) ==
    /\ ~crashed
    /\ pc[r] = "opened"
    /\ IF ok THEN
           /\ files' = Put(files, local[r].tmpfile, local[r].iso8859Content)
           /\ pc' = [pc EXCEPT ![r] = "written"]
           /\ UNCHANGED <<activeFiles, local, response>>
       ELSE WriteFailed(r, Message("writeFileAtomic failed", <<>>))
    /\ UNCHANGED <<now, host, env, backups, args, atCall, crashed>>

\* writeFileAtomic: rename the temporary file over the target
RenameTmp(r, ok) ==
    /\ ~crashed
    /\ pc[r] = "written"
    /\ IF ok THEN
           /\ files' = rename(files, local[r].tmpfile, local[r].normalizedPath)
           /\ pc' = [pc EXCEPT ![r] = "renamed"]
           /\ UNCHANGED <<activeFiles, local, response>>
       ELSE WriteFailed(r, Message("writeFileAtomic failed", <<>>))
    /\ UNCHANGED <<now, host, env, backups, args, atCall, crashed>>

\* writeFileAtomic resolves (finally block), then the handler continues without
\* suspension: verifyEncoding and the response (lines 19-34 and 96-114)
Complete(r, readOk) ==
    /\ ~crashed
    /\ pc[r] = "renamed"
    /\ files' = IF existsSync(files, local[r].tmpfile) THEN unlink(files, local[r].tmpfile)
                ELSE files
    /\ activeFiles' = releaseActiveFile(local[r].normalizedPath)
    /\ LET normalizedPath == local[r].normalizedPath
           verification == verifyEncoding(files'[normalizedPath])
           output == [returned |-> TRUE, isError |-> FALSE, success |-> TRUE,
                      path |-> normalizedPath, encoding |-> verification.encoding,
                      corruption_count |-> verification.corruptionCount,
                      is_clean |-> verification.isClean]
           editOutput == [returned |-> TRUE, isError |-> FALSE, success |-> TRUE,
                          path |-> normalizedPath, encoding |-> verification.encoding,
                          corruption_count |-> verification.corruptionCount,
                          is_clean |-> verification.isClean,
                          lines_replaced |-> local[r].linesReplaced,
                          total_lines |-> Len(local[r].lines),
                          backup_path |-> local[r].backupPath]
       IN  IF ~readOk \/ ~existsSync(files', normalizedPath) THEN
               Return(r, ErrorResponse(Message("readFileSync failed", <<>>)))
           ELSE IF args[r].op = "write" THEN Return(r, output)
           ELSE Return(r, editOutput)
    /\ UNCHANGED <<now, host, env, backups, args, local, atCall, crashed>>

\* one millisecond passes
Tick ==
    /\ ~crashed
    /\ now < MaxTime
    /\ now' = now + 1
    /\ UNCHANGED <<host, env, files, backups, activeFiles, pc, args, local, response, atCall, crashed>>

\* the process is killed while a write is in progress: no handler takes another
\* step, the filesystem stays as it is
Crash ==
    /\ ~crashed
    /\ \E r \in AllRequests : pc[r] \in {"queued", "opened", "written", "renamed"}
    /\ crashed' = TRUE
    /\ UNCHANGED <<now, host, env, files, backups, activeFiles, pc, args, local, response, atCall>>

\* --------------------------------------------------------- specifications
Cwd == <<SEP, "b">>
TargetFile == <<SEP, "b", SEP, "d", SEP, "f">>
RelativeFile == <<"d", SEP, "f">>
OutsideFile == <<SEP, "o", SEP, "f">>
TargetPaths == {TargetFile, OutsideFile}

NoEnv == [MCP_ISO_BASE_PATH |-> <<>>, MCP_ISO_BACKUP_ROOT |-> <<>>]
EmptyFs == [p \in {} |-> <<>>]

InitCommon ==
    /\ now = 0
    /\ env = NoEnv
    /\ host \in {[cwd |-> Cwd, EOL |-> e, BASE_PATH |-> BasePathOf(env.MCP_ISO_BASE_PATH, Cwd)] :
                    e \in {CRLF, BareLF}}
    /\ backups = [b \in {} |-> <<>>]
    /\ activeFiles = [p \in {} |-> <<>>]
    /\ pc = [r \in AllRequests |-> "idle"]
    /\ args = [r \in AllRequests |-> NoArgs]
    /\ local = [r \in AllRequests |-> NoLocal]
    /\ response = [r \in AllRequests |-> NoResponse]
    /\ atCall = [r \in AllRequests |-> EmptyFs]
    /\ crashed = FALSE

\* ---- sequential specification: a read, one operation with rich inputs, a read
FileTexts == TextsUpTo({"a", CR, LF}, MaxLen)
NewTexts == TextsUpTo({"x", CR, LF}, MaxNewLen)
CreateTexts == {<<>>, <<"a">>, <<"a", LF, "b">>, <<Euro>>}
LineArgs == 0..(MaxLen + 2)

InitSeq ==
    /\ InitCommon
    /\ files \in {EmptyFs} \cup {Put(EmptyFs, TargetFile, encode(t)) : t \in FileTexts}

ReadBefore == handleReadFileIso(1, TargetFile, TRUE)

SeqWrite ==
    /\ pc[1] = "done" /\ pc[2] = "idle"
    /\ \E t \in CreateTexts : handleWriteFileIso(2, TargetFile, t)

SeqEdit ==
    /\ pc[1] = "done" /\ pc[2] = "idle"
    /\ \E s \in LineArgs, e \in LineArgs, t \in NewTexts :
          handleEditFileIso(2, TargetFile, s, e, t, TRUE, TRUE)

SeqAtomicWrite == OpenTmp(2, TRUE) \/ WriteTmp(2, TRUE) \/ RenameTmp(2, TRUE) \/ Complete(2, TRUE)

ReadAfter ==
    /\ pc[2] = "done" /\ ~response[2].isError
    /\ handleReadFileIso(3, TargetFile, TRUE)

NextSeq == ReadBefore \/ SeqWrite \/ SeqEdit \/ SeqAtomicWrite \/ ReadAfter

SpecSeq == InitSeq /\ [][NextSeq]_vars

\* ---- concurrent specification: NumRequests invocations that may overlap
ConcFiles == {<<"a", LF, "b">>}
ConcTexts == {<<"x">>}
ConcRanges == {<<1, 1>>, <<2, 2>>, <<3, 3>>}

Init ==
    /\ InitCommon
    /\ host.EOL = BareLF
    /\ files \in {Put(EmptyFs, TargetFile, encode(t)) : t \in ConcFiles}

\* invocations are numbered in the order of their arrival
Arrived(r) == \A q \in Requests : q < r => pc[q] # "idle"

CallWrite == \E r \in Requests, t \in ConcTexts : Arrived(r) /\ handleWriteFileIso(r, TargetFile, t)

CallEdit ==
    \E r \in Requests, rg \in ConcRanges, t \in ConcTexts, copyOk \in BOOLEAN, readOk \in BOOLEAN :
        Arrived(r) /\ handleEditFileIso(r, TargetFile, rg[1], rg[2], t, copyOk, readOk)

CallRead == \E r \in Requests, ok \in BOOLEAN : Arrived(r) /\ handleReadFileIso(r, TargetFile, ok)

AtomicWrite ==
    \E r \in Requests, ok \in BOOLEAN :
        OpenTmp(r, ok) \/ WriteTmp(r, ok) \/ RenameTmp(r, ok) \/ Complete(r, ok)

Next == CallWrite \/ CallEdit \/ CallRead \/ AtomicWrite \/ Tick \/ Crash

Spec == Init /\ [][Next]_vars

\* ------------------------------------------------------------------ claims
Returned(r) == pc[r] = "done"
Failed(r) == Returned(r) /\ response[r].isError
Succeeded(r) == Returned(r) /\ ~response[r].isError
EditSucceeded(r) == args[r].op = "edit" /\ Succeeded(r)
\* the edit got as far as validateLineRange
RangeChecked(r) == args[r].op = "edit" /\ local[r].totalLines > 0

\* C4: validateLineRange(startLine, endLine, totalLines) returns valid = true if
\* and only if 1 <= startLine <= endLine <= totalLines, and when valid it returns
\* no error.
C4_ValidIffInRange ==
    \A r \in AllRequests : RangeChecked(r) =>
        LET rv == local[r].rangeValidation
            s == args[r].startLine
            e == args[r].endLine
            t == local[r].totalLines
        IN  /\ rv.valid <=> (1 <= s /\ s <= e /\ e <= t)
            /\ rv.valid => rv.error = NoError
            /\ ~rv.valid => Failed(r)

C4_Witness ==
    \E r \in AllRequests :
        /\ RangeChecked(r) /\ local[r].rangeValidation.valid
        /\ args[r].startLine = 2 /\ args[r].endLine = local[r].totalLines /\ args[r].endLine > 2

\* C5: each violated line-range precondition yields its own error, exactly one
\* per call, chosen in the fixed order startLine < 1, endLine < 1, startLine >
\* endLine, startLine > totalLines, endLine > totalLines; the error carries the
\* offending numbers (for the two file-length errors the line and totalLines), and
\* it is the error the edit returns.
RangeErrors(s, e, t) ==
    << [violated |-> s < 1, msg |-> "startLine must be >= 1 (got N)", nums |-> <<s>>],
       [violated |-> e < 1, msg |-> "endLine must be >= 1 (got N)", nums |-> <<e>>],
       [violated |-> s > e, msg |-> "startLine (N) > endLine (N)", nums |-> <<s, e>>],
       [violated |-> s > t, msg |-> "startLine (N) exceeds file length (N lines)", nums |-> <<s, t>>],
       [violated |-> e > t, msg |-> "endLine (N) exceeds file length (N lines)", nums |-> <<e, t>>] >>

C5_FirstViolationReported ==
    \A r \in AllRequests : RangeChecked(r) =>
        LET errs == RangeErrors(args[r].startLine, args[r].endLine, local[r].totalLines)
            bad == {i \in 1..5 : errs[i].violated}
            rv == local[r].rangeValidation
        IN  /\ \A i, j \in 1..5 : i # j => errs[i].msg # errs[j].msg
            /\ bad # {} =>
                 LET first == CHOOSE i \in bad : \A j \in bad : i <= j
                 IN  /\ ~rv.valid
                     /\ rv.error = Message(errs[first].msg, errs[first].nums)
                     /\ Failed(r) /\ response[r].message = rv.error

\* startLine and endLine both beyond the file: the startLine error is reported
C5_Witness ==
    \E r \in AllRequests :
        /\ RangeChecked(r)
        /\ args[r].startLine > local[r].totalLines /\ args[r].endLine > args[r].startLine
        /\ Failed(r)
        /\ response[r].message =
               Message("startLine (N) exceeds file length (N lines)",
                       <<args[r].startLine, local[r].totalLines>>)

\* C7: detectLineEnding returns CRLF iff the number of CR+LF pairs strictly
\* exceeds the number of LFs not preceded by CR; otherwise LF iff there is such a
\* bare LF; otherwise the host default.  Equal positive counts yield LF.
NumCRLF(text) == Cardinality({i \in 1..Len(text) : i > 1 /\ text[i] = LF /\ text[i - 1] = CR})
NumBareLF(text) == Cardinality({i \in 1..Len(text) : text[i] = LF /\ (i = 1 \/ text[i - 1] # CR)})
Dominant(text) ==
    IF NumCRLF(text) > NumBareLF(text) THEN CRLF
    ELSE IF NumBareLF(text) >= 1 THEN BareLF
    ELSE host.EOL
EndingName(le) == IF le = CRLF THEN "CRLF" ELSE "LF"

C7_DetectsDominantEnding ==
    \A r \in AllRequests :
        /\ args[r].op = "read" /\ Succeeded(r) =>
               response[r].line_ending = EndingName(Dominant(response[r].content))
        /\ RangeChecked(r) => local[r].lineEnding = Dominant(decode(local[r].fileBuffer))

C7_Witness ==
    \E r \in AllRequests :
        /\ args[r].op = "read" /\ Succeeded(r)
        /\ NumCRLF(response[r].content) = 1 /\ NumBareLF(response[r].content) = 1
        /\ response[r].line_ending = "LF"
        /\ host.EOL = CRLF

\* ---- what an edit leaves in the file, read back line by line
\* the terminators of a text in order, as the split grammar /\r?\n/ finds them
RECURSIVE Terminators(_)
Terminators(text) ==
    LET i == NextTerminator(text, 1)
    IN  IF i = 0 THEN <<>>
        ELSE <<SubSeq(text, i, i - 1 + TerminatorAt(text, i))>>
                 \o Terminators(Drop(text, i - 1 + TerminatorAt(text, i)))

OriginalText(r) == decode(local[r].fileBuffer)
OriginalLines(r) == Split(OriginalText(r))
ReplacementLines(r) == Split(args[r].newContent)
WrittenText(r) == decode(files[local[r].normalizedPath])
WrittenLines(r) == Split(WrittenText(r))
Removed(r) == args[r].endLine - args[r].startLine + 1
\* index after the edit of the original line i that follows the edited range
Shifted(r, i) == i - Removed(r) + Len(ReplacementLines(r))

\* C1: a successful edit of lines startLine..endLine of a file of totalLines
\* lines by a text of k lines leaves a file of totalLines - (endLine - startLine
\* + 1) + k lines: the original lines before startLine, the k replacement lines,
\* the original lines after endLine, in order.
C1_EditLeavesSplicedLines ==
    \A r \in SeqRequests : EditSucceeded(r) =>
        LET s == args[r].startLine
            e == args[r].endLine
            k == Len(ReplacementLines(r))
            total == Len(OriginalLines(r))
        IN  /\ Len(WrittenLines(r)) = total - (e - s + 1) + k
            /\ \A i \in 1..(s - 1) : WrittenLines(r)[i] = OriginalLines(r)[i]
            /\ \A j \in 1..k : WrittenLines(r)[s - 1 + j] = ReplacementLines(r)[j]
            /\ \A i \in (e + 1)..total : WrittenLines(r)[Shifted(r, i)] = OriginalLines(r)[i]

\* C8: after a successful edit every line terminator of the written file is the
\* terminator detected from the original content, for every replacement text.
C8_EveryTerminatorIsDetected ==
    \A r \in SeqRequests : EditSucceeded(r) =>
        \A i \in 1..Len(Terminators(WrittenText(r))) :
            Terminators(WrittenText(r))[i] = local[r].lineEnding

\* C9: if a read before the edit reports line_ending E and the edited file still
\* has a terminator, a read right after the successful edit reports E.
C9_ReadReportsSameEnding ==
    (/\ Succeeded(1) /\ EditSucceeded(2) /\ Succeeded(3)
     /\ Len(Terminators(response[3].content)) >= 1)
        => response[3].line_ending = response[1].line_ending

\* C10 as stated: editing a file that mixes bare-LF and CRLF terminators keeps,
\* after each line outside the edited range, the terminator that followed it.
Mixed(text) == NumCRLF(text) >= 1 /\ NumBareLF(text) >= 1
\* the original lines outside the edited range that a terminator follows
Untouched(r) ==
    {i \in 1..(Len(OriginalLines(r)) - 1) : i < args[r].startLine \/ i > args[r].endLine}
After(r, i) == IF i < args[r].startLine THEN i ELSE Shifted(r, i)

InFlight(r) == pc[r] \in {"queued", "opened", "written", "renamed"}
Content(fs, p) == IF p \in DOMAIN fs THEN <<fs[p]>> ELSE <<>>

\* C2: when a successful edit returns, also with other operations on the same path
\* running concurrently, a backup exists at the reported backup_path and holds the
\* bytes the edit read and applied its replacement to.
C2_BackupHoldsPreEditContent ==
    [][\A r \in Requests :
          (pc[r] # "done" /\ pc'[r] = "done" /\ args'[r].op = "edit" /\ ~response'[r].isError) =>
              /\ response'[r].backup_path \in DOMAIN backups'
              /\ backups'[response'[r].backup_path] = local'[r].fileBuffer]_vars

\* C3: persistence is atomic per file.  Every step, a crash included, leaves each
\* target file with the content it had or with the complete new content of a
\* write in progress, and nothing changes once the process is killed.
C3_AtomicPersistence ==
    [][/\ \A p \in TargetPaths :
              \/ Content(files', p) = Content(files, p)
              \/ \E r \in AllRequests :
                    /\ InFlight(r) /\ local[r].normalizedPath = p
                    /\ Content(files', p) = <<local[r].iso8859Content>>
       /\ crashed => files' = files]_vars

\* the process was killed after a write filled its temporary file, before the rename:
\* the target still has its old content
C3_Witness ==
    \E r \in Requests :
        /\ crashed /\ pc[r] = "written"
        /\ files[local[r].tmpfile] = local[r].iso8859Content
        /\ files[TargetFile] # local[r].iso8859Content
        /\ files[TargetFile] = atCall[r][TargetFile]

\* C6: an edit that returns an error, for any reason, leaves the target file's
\* content as it was before the call (no other operation has been invoked).
C6_FailedEditLeavesFile ==
    \A r \in Requests :
        (/\ args[r].op = "edit" /\ Failed(r)
         /\ \A q \in Requests \ {r} : pc[q] = "idle")
            => Content(files, TargetFile) = Content(atCall[r], TargetFile)

\* ---- encoding specification: one create or edit with texts over characters
\* inside and outside the ISO-8859-1 repertoire, then two reads
EncAlphabet == {"a", Euro, "i-diaeresis", "inverted-?", "one-half"}
EncTexts == TextsUpTo(EncAlphabet, MaxEncLen)

InitEnc ==
    /\ InitCommon
    /\ host.EOL = BareLF
    /\ files \in {EmptyFs, Put(EmptyFs, TargetFile, encode(<<"a", LF, "b">>))}

EncWrite ==
    /\ pc[1] = "idle"
    /\ \E t \in EncTexts : handleWriteFileIso(1, TargetFile, t)

EncEdit ==
    /\ pc[1] = "idle"
    /\ \E t \in EncTexts : handleEditFileIso(1, TargetFile, 1, 1, t, TRUE, TRUE)

EncAtomicWrite == OpenTmp(1, TRUE) \/ WriteTmp(1, TRUE) \/ RenameTmp(1, TRUE) \/ Complete(1, TRUE)

EncRead ==
    \E r \in {2, 3} :
        /\ pc[r - 1] = "done"
        /\ handleReadFileIso(r, TargetFile, TRUE)

NextEnc == EncWrite \/ EncEdit \/ EncAtomicWrite \/ EncRead

SpecEnc == InitEnc /\ [][NextEnc]_vars

\* ---- encoding claims
CreateSucceeded(r) == args[r].op = "write" /\ Succeeded(r)
LatinText(text) == \A i \in 1..Len(text) : text[i] \in Latin1
\* the text given to a create or an edit
GivenText(r) == IF args[r].op = "write" THEN args[r].content ELSE args[r].newContent
\* occurrences in text of the sequence i-diaeresis, inverted question mark, one half
MarkerOccurrences(text) ==
    Cardinality({i \in 1..(Len(text) - 2) :
        text[i] = "i-diaeresis" /\ text[i + 1] = "inverted-?" /\ text[i + 2] = "one-half"})

\* C11 as stated: for all text composed only of ISO-8859-1 characters, creating a
\* file with that text reports corruption_count = 0 and is_clean = true.
C11_LatinTextIsClean ==
    \A r \in SeqRequests : (CreateSucceeded(r) /\ LatinText(args[r].content)) =>
        response[r].corruption_count = 0 /\ response[r].is_clean

\* C11 amended: for all text composed only of ISO-8859-1 characters, creating a
\* file with that text reports as corruption_count the number of occurrences of
\* the three-character marker sequence in the text, and is_clean iff there is none.
C11_CleanUnlessMarker ==
    \A r \in SeqRequests : (CreateSucceeded(r) /\ LatinText(args[r].content)) =>
        /\ response[r].corruption_count = MarkerOccurrences(args[r].content)
        /\ response[r].is_clean <=> MarkerOccurrences(args[r].content) = 0

\* a text of marker characters that is not the marker was created and is clean
C11_Witness ==
    \E r \in SeqRequests :
        /\ CreateSucceeded(r) /\ LatinText(args[r].content)
        /\ Len(args[r].content) >= 3
        /\ \E i, j \in 1..Len(args[r].content) :
              args[r].content[i] = "i-diaeresis" /\ args[r].content[j] = "one-half"
        /\ response[r].corruption_count = 0 /\ response[r].is_clean

\* C12: a read issued right after a successful create of a text of ISO-8859-1
\* characters at the same path succeeds and returns exactly that text, and a
\* second read returns the same content.
C12_ReadAfterCreate ==
    (CreateSucceeded(1) /\ LatinText(args[1].content)) =>
        /\ Returned(2) => (Succeeded(2) /\ response[2].content = args[1].content)
        /\ Returned(3) => (Succeeded(3) /\ response[3].content = response[2].content)

C12_Witness ==
    /\ CreateSucceeded(1) /\ LatinText(args[1].content) /\ Succeeded(2) /\ Succeeded(3)
    /\ Len(args[1].content) >= 2
    /\ \E i \in 1..Len(args[1].content) : args[1].content[i] = "inverted-?"
    /\ response[3].content = args[1].content

\* C13: when the text given to create, or the replacement text given to edit, has a
\* character that cannot be converted to ISO-8859-1, the operation succeeds and
\* its response reports the loss: corruption_count > 0 and is_clean = false.
C13_LossIsReported ==
    \A r \in SeqRequests :
        (/\ args[r].op \in {"write", "edit"} /\ Returned(r)
         /\ args[r].op = "edit" => existsSync(atCall[r], local[r].normalizedPath)
         /\ ~LatinText(GivenText(r)))
            => /\ Succeeded(r)
               /\ response[r].corruption_count > 0
               /\ ~response[r].is_clean

\* ---- path specification: one operation on paths inside and outside the base
\* directory, with the base directory and the backup root configured or not
BaseDir == <<SEP, "b", SEP, "d">>
OtherRoot == <<SEP, "r">>
RootFile == <<SEP, "b", SEP, "f">>
SiblingFile == <<SEP, "b", "c", SEP, "f">>
DeepFile == <<SEP, "b", SEP, "d", SEP, "e", SEP, "f">>
EscapingFile == <<SEP, "b", SEP, DOT, DOT, SEP, "o", SEP, "f">>
MissingFile == <<SEP, "b", SEP, "d", SEP, "g">>
ExistingFiles == {TargetFile, RootFile, SiblingFile, DeepFile, OutsideFile}
PathInputs == ExistingFiles \cup {RelativeFile, EscapingFile, MissingFile}

InitPath ==
    /\ now = 0
    /\ env \in {[MCP_ISO_BASE_PATH |-> b, MCP_ISO_BACKUP_ROOT |-> k] :
                   b \in {<<>>, BaseDir}, k \in {<<>>, BaseDir, OtherRoot}}
    /\ host = [cwd |-> Cwd, EOL |-> BareLF, BASE_PATH |-> BasePathOf(env.MCP_ISO_BASE_PATH, Cwd)]
    /\ files = [p \in ExistingFiles |-> encode(<<"a", LF, "b">>)]
    /\ backups = [b \in {} |-> <<>>]
    /\ activeFiles = [p \in {} |-> <<>>]
    /\ pc = [r \in AllRequests |-> "idle"]
    /\ args = [r \in AllRequests |-> NoArgs]
    /\ local = [r \in AllRequests |-> NoLocal]
    /\ response = [r \in AllRequests |-> NoResponse]
    /\ atCall = [r \in AllRequests |-> EmptyFs]
    /\ crashed = FALSE

PathWrite == \E p \in PathInputs : handleWriteFileIso(1, p, <<"x">>)

PathEdit == \E p \in PathInputs : handleEditFileIso(1, p, 1, 1, <<"x">>, TRUE, TRUE)

PathRead == \E p \in PathInputs : handleReadFileIso(1, p, TRUE)

PathAtomicWrite == OpenTmp(1, TRUE) \/ WriteTmp(1, TRUE) \/ RenameTmp(1, TRUE) \/ Complete(1, TRUE)

NextPath == PathWrite \/ PathEdit \/ PathRead \/ PathAtomicWrite

SpecPath == InitPath /\ [][NextPath]_vars

\* ---- path claims
\* path p is dir itself or a descendant of it, compared segment by segment
WithinDir(p, dir) ==
    LET ps == Segments(p)
        ds == Segments(dir)
    IN  Len(ds) <= Len(ps) /\ \A i \in 1..Len(ds) : ps[i] = ds[i]
LeadingSep(p) == Len(p) > 0 /\ p[1] = SEP
PathErrors == {"Path must be absolute", "Path must be inside BASE_PATH"}
PathRejected(resp) == resp.returned /\ resp.isError /\ resp.message.msg \in PathErrors

\* C14: an operation gets past the path resolver only with an absolute path whose
\* resolved, normalized form is the base directory or a descendant of it, compared
\* by segments; so no operation touches a target outside the base directory.
C14_SandboxContainment ==
    \A r \in SeqRequests : (pc[r] # "idle" /\ ~PathRejected(response[r])) =>
        /\ LeadingSep(args[r].filePath)
        /\ WithinDir(resolve(host.cwd, args[r].filePath), resolve(host.cwd, host.BASE_PATH))

\* C15: when MCP_ISO_BASE_PATH is unset the path resolver accepts every absolute
\* path, so a create of any absolute path succeeds.
C15_UnrestrictedByDefault ==
    \A r \in SeqRequests :
        (/\ env.MCP_ISO_BASE_PATH = <<>> /\ pc[r] # "idle"
         /\ LeadingSep(args[r].filePath))
            => /\ ~PathRejected(response[r])
               /\ (args[r].op = "write" /\ Returned(r)) => Succeeded(r)

\* C17: an edit or read whose path the resolver rejects, or whose target does
\* not exist, returns an error in that step and changes nothing: no file, no
\* temporary file, no backup, no queued write.
C17_RejectedChangesNothing ==
    [][\A r \in SeqRequests :
          (/\ pc[r] = "idle" /\ pc'[r] # "idle" /\ args'[r].op \in {"edit", "read"}
           /\ \/ ~LeadingSep(args'[r].filePath)
              \/ PathRejected(response'[r])
              \/ ~existsSync(files, resolve(host.cwd, args'[r].filePath)))
              => /\ pc'[r] = "done" /\ response'[r].isError
                 /\ files' = files /\ backups' = backups /\ activeFiles' = activeFiles]_vars

\* an edit of an existing file outside the base directory was rejected, and an
\* edit of a missing file inside it: nothing was written or backed up
C17_Witness ==
    \E r \in SeqRequests :
        /\ args[r].op = "edit" /\ Failed(r)
        /\ \/ /\ response[r].message.msg = "Path must be inside BASE_PATH"
              /\ existsSync(files, resolve(host.cwd, args[r].filePath))
           \/ /\ response[r].message.msg = "File does not exist"
              /\ args[r].filePath = MissingFile
        /\ files = atCall[r] /\ DOMAIN backups = {}

\* C19: the backup of an edit is placed under <backupRoot>/.mcp-iso8859-writer/;
\* for a target under the backup root it is <backupRoot>/.mcp-iso8859-writer/
\* <directory of the target relative to the root>/<filename>.backup.<timestamp>,
\* and it is under external/ iff the target is not under the backup root.
C19_BackupPlacement ==
    \A r \in SeqRequests : (args[r].op = "edit" /\ local[r].backupPath # NoBackup) =>
        LET root == getBackupRoot(env.MCP_ISO_BACKUP_ROOT, host.cwd)
            target == Segments(local[r].normalizedPath)
            nsDir == Segments(root) \o <<BackupNamespace>>
            dir == Segments(local[r].backupPath.dir)
            under == WithinDir(local[r].normalizedPath, root)
        IN  /\ Len(dir) >= Len(nsDir) /\ Take(dir, Len(nsDir)) = nsDir
            /\ local[r].backupPath.file = target[Len(target)]
            /\ local[r].backupPath.ts = now
            /\ under => dir = nsDir \o Drop(Take(target, Len(target) - 1), Len(Segments(root)))
            /\ (dir = nsDir \o <<External>>) <=> ~under

\* ---- response and backup claims of the concurrent specification
ErrorFields == {"returned", "isError", "message"}
CreateFields == {"returned", "isError", "success", "path", "encoding", "corruption_count", "is_clean"}
EditFields == CreateFields \cup {"lines_replaced", "total_lines", "backup_path"}
ReadFields == {"returned", "isError", "success", "path", "content", "lines", "line_ending"}
OutputFields(op) ==
    IF op = "write" THEN CreateFields ELSE IF op = "edit" THEN EditFields ELSE ReadFields
\* a success response with the output fields of the operation, or an error with a message
WellFormed(op, resp) ==
    /\ "isError" \in DOMAIN resp
    /\ IF resp.isError THEN DOMAIN resp = ErrorFields /\ resp.message.msg # ""
       ELSE DOMAIN resp = OutputFields(op) /\ resp.success

\* C16: every invocation of create, edit or read, whatever fails in it, returns
\* exactly one response, a success response with the operation's output fields
\* or an error response with a message; an invocation in progress can always
\* take its next step, and a response once returned does not change.
C16_AlwaysOneResponse ==
    [][\A r \in Requests :
          /\ pc'[r] = "done" <=> response'[r] # NoResponse
          /\ pc'[r] = "done" => WellFormed(args'[r].op, response'[r])
          /\ pc[r] = "done" => (pc'[r] = "done" /\ response'[r] = response[r])
          /\ (~crashed /\ InFlight(r)) => ENABLED AtomicWrite]_vars

\* one invocation failed in its write and another succeeded
C16_Witness ==
    \E r, q \in Requests :
        /\ Failed(r) /\ response[r].message.msg = "writeFileAtomic failed"
        /\ Succeeded(q) /\ WellFormed(args[q].op, response[q])

\* C18: an edit whose backup copy fails returns an error in that step and leaves
\* the filesystem and the backup store untouched, for good; and an edit replaces
\* the target only with the backup of that call in the backup store.
C18_WriteOnlyAfterBackup ==
    [][\A r \in Requests :
          /\ (/\ pc[r] = "idle" /\ pc'[r] = "done" /\ args'[r].op = "edit"
              /\ response'[r].message.msg = "copyFileSync failed")
                 => files' = files /\ backups' = backups /\ activeFiles' = activeFiles
          /\ (args[r].op = "edit" /\ Failed(r)) => pc'[r] = "done"
          /\ (args[r].op = "edit" /\ pc[r] = "written" /\ pc'[r] = "renamed")
                 => /\ local[r].backupPath # NoBackup
                    /\ local[r].backupPath \in DOMAIN backups]_vars

\* one edit failed in its backup copy, another replaced the target after its backup
C18_Witness ==
    \E r, q \in Requests :
        /\ args[r].op = "edit" /\ Failed(r) /\ response[r].message.msg = "copyFileSync failed"
        /\ args[q].op = "edit" /\ pc[q] = "renamed"
        /\ local[q].backupPath \in DOMAIN backups
        /\ files[TargetFile] = local[q].iso8859Content

\* C20: backups are permanent.  No step deletes a backup or changes its content,
\* and each edit that reaches the backup step adds a backup record of its own.
C20_BackupsArePermanent ==
    [][/\ \A b \in DOMAIN backups : b \in DOMAIN backups' /\ backups'[b] = backups[b]
       /\ \A r \in Requests :
             (local[r].backupPath = NoBackup /\ local'[r].backupPath # NoBackup)
                 => local'[r].backupPath \notin DOMAIN backups]_vars

\* ---- environment specification: the environment variables change between the
\* operations of a running process
EnvChoices ==
    {[MCP_ISO_BASE_PATH |-> b, MCP_ISO_BACKUP_ROOT |-> k] :
        b \in {<<>>, BaseDir}, k \in {<<>>, OtherRoot}}

\* host.startEnv records process.env as it was when the modules were loaded
InitEnv ==
    /\ now = 0
    /\ env \in EnvChoices
    /\ host = [cwd |-> Cwd, EOL |-> BareLF, BASE_PATH |-> BasePathOf(env.MCP_ISO_BASE_PATH, Cwd),
               startEnv |-> env]
    /\ files = [p \in ExistingFiles |-> encode(<<"a", LF, "b">>)]
    /\ backups = [b \in {} |-> <<>>]
    /\ activeFiles = [p \in {} |-> <<>>]
    /\ pc = [r \in AllRequests |-> "idle"]
    /\ args = [r \in AllRequests |-> NoArgs]
    /\ local = [r \in AllRequests |-> NoLocal]
    /\ response = [r \in AllRequests |-> NoResponse]
    /\ atCall = [r \in AllRequests |-> EmptyFs]
    /\ crashed = FALSE

\* process.env is assigned while no operation is in progress
SetEnv ==
    /\ \A r \in AllRequests : pc[r] \in {"idle", "done"}
    /\ \E e \in EnvChoices : e # env /\ env' = e
    /\ UNCHANGED <<now, host, files, backups, activeFiles, pc, args, local, response, atCall, crashed>>

\* the operations are made one after the other
EnvTurn(r) == \A q \in {1, 2} : (q < r => pc[q] = "done") /\ (q > r => pc[q] = "idle")

EnvWrite ==
    \E r \in {1, 2}, p \in {TargetFile, OutsideFile} :
        EnvTurn(r) /\ handleWriteFileIso(r, p, <<"x">>)

EnvEdit ==
    \E r \in {1, 2}, p \in {TargetFile, OutsideFile} :
        EnvTurn(r) /\ handleEditFileIso(r, p, 1, 1, <<"x">>, TRUE, TRUE)

EnvAtomicWrite ==
    \E r \in {1, 2} : OpenTmp(r, TRUE) \/ WriteTmp(r, TRUE) \/ RenameTmp(r, TRUE) \/ Complete(r, TRUE)

NextEnv == SetEnv \/ EnvWrite \/ EnvEdit \/ EnvAtomicWrite

SpecEnv == InitEnv /\ [][NextEnv]_vars

\* C21: the configuration is fixed at process start.  Whatever the environment
\* variables are changed to afterwards, validatePath uses the base directory and
\* createBackup the backup root that the environment gave at process start.
C21_ConfigFixedAtStart ==
    \A r \in SeqRequests : pc[r] # "idle" =>
        LET startBase == BasePathOf(host.startEnv.MCP_ISO_BASE_PATH, host.cwd)
            startRoot == getBackupRoot(host.startEnv.MCP_ISO_BACKUP_ROOT, host.cwd)
        IN  /\ Returned(r) =>
                  (PathRejected(response[r]) <=>
                      ~validatePath(args[r].filePath, host.cwd, startBase).valid)
            /\ (args[r].op = "edit" /\ local[r].backupPath # NoBackup) =>
                  local[r].backupPath.dir = BackupDirOf(startRoot, local[r].normalizedPath)

\* ---- line counts of the sequential specification
\* C22: a successful edit reports lines_replaced = endLine - startLine + 1 and as
\* total_lines the line count of the file after the edit, which is the lines
\* value of a read of the same path right after it.
C22_EditReportsCounts ==
    EditSucceeded(2) =>
        /\ response[2].lines_replaced = args[2].endLine - args[2].startLine + 1
        /\ response[2].total_lines = Len(WrittenLines(2))
        /\ Succeeded(3) => response[3].lines = response[2].total_lines

\* two lines were replaced by three and the read after the edit agrees
C22_Witness ==
    /\ EditSucceeded(2) /\ Succeeded(3)
    /\ response[2].lines_replaced = 2 /\ Len(ReplacementLines(2)) = 3
    /\ response[2].total_lines = local[2].totalLines + 1
    /\ response[3].lines = response[2].total_lines

\* C24: the number of lines of a decoded text, as read reports it and as edit
\* uses it, is (number of CRLF pairs) + (number of LFs not preceded by CR) + 1,
\* with the terminators counted as detectLineEnding counts them.
C24_LinesAreTerminatorsPlusOne ==
    \A r \in SeqRequests :
        /\ (args[r].op = "read" /\ Succeeded(r)) =>
              /\ response[r].lines = NumCRLF(response[r].content) + NumBareLF(response[r].content) + 1
              /\ CountCRLF(response[r].content, 1) = NumCRLF(response[r].content)
              /\ CountLF(response[r].content, 1) = NumBareLF(response[r].content)
              /\ response[r].content = <<>> => response[r].lines = 1
        /\ (args[r].op = "edit" /\ local[r].rangeValidation # NoLocal.rangeValidation) =>
              local[r].totalLines = NumCRLF(OriginalText(r)) + NumBareLF(OriginalText(r)) + 1

\* a text with both kinds of terminator and a trailing one was read as three lines
C24_Witness ==
    \E r \in SeqRequests :
        /\ args[r].op = "read" /\ Succeeded(r)
        /\ Len(response[r].content) >= 3
        /\ response[r].content[Len(response[r].content)] = LF
        /\ NumCRLF(response[r].content) = 1 /\ NumBareLF(response[r].content) = 1
        /\ response[r].lines = 3

\* C25: every replacement text splits into at least one line, the empty string
\* into one empty line; after a successful edit the file has at least totalLines
\* - (endLine - startLine + 1) + 1 >= 1 lines, and replacing one line by the
\* empty string keeps the line count.
C25_ReplacementHasALine ==
    \A r \in SeqRequests : EditSucceeded(r) =>
        LET total == local[r].totalLines
        IN  /\ Len(ReplacementLines(r)) >= 1
            /\ args[r].newContent = <<>> => ReplacementLines(r) = << <<>> >>
            /\ Len(WrittenLines(r)) >= total - Removed(r) + 1
            /\ total - Removed(r) + 1 >= 1
            /\ (args[r].newContent = <<>> /\ Removed(r) = 1) => Len(WrittenLines(r)) = total

\* one line of a file of several lines was replaced by the empty string
C25_Witness ==
    \E r \in SeqRequests :
        /\ EditSucceeded(r) /\ args[r].newContent = <<>> /\ Removed(r) = 1
        /\ local[r].totalLines >= 2
        /\ Len(WrittenLines(r)) = local[r].totalLines

\* C27: splitting the file written by a successful edit yields exactly the line
\* sequence the edit computed (prefix lines, replacement lines, suffix lines),
\* element for element, for every replacement text over an alphabet with CR and LF.
C27_SplitOfWrittenIsSpliced ==
    \A r \in SeqRequests : EditSucceeded(r) => WrittenLines(r) = local[r].lines

\* ---- repeated edits specification: three edits of one file, one after the
\* other, each replacing a single line by a single-line text
MultiFiles == {<<"a", LF, "b">>, <<"a", CR, LF, "b">>, <<LF>>}
MultiTexts == {<<"x">>, <<"y">>, <<CR>>}
MultiLines == 1..2

InitMulti ==
    /\ InitCommon
    /\ host.EOL = BareLF
    /\ files \in {Put(EmptyFs, TargetFile, encode(t)) : t \in MultiFiles}

MultiTurn(r) == \A q \in SeqRequests : (q < r => pc[q] = "done") /\ (q > r => pc[q] = "idle")

MultiEdit ==
    \E r \in SeqRequests, i \in MultiLines, t \in MultiTexts :
        MultiTurn(r) /\ handleEditFileIso(r, TargetFile, i, i, t, TRUE, TRUE)

MultiAtomicWrite ==
    \E r \in SeqRequests :
        OpenTmp(r, TRUE) \/ WriteTmp(r, TRUE) \/ RenameTmp(r, TRUE) \/ Complete(r, TRUE)

NextMulti == MultiEdit \/ MultiAtomicWrite

SpecMulti == InitMulti /\ [][NextMulti]_vars

\* the edits made so far, all of them successful and none in progress
EditsDone == {r \in SeqRequests : pc[r] = "done"}
BetweenEdits ==
    \A r \in SeqRequests : pc[r] \in {"idle", "done"} /\ (pc[r] = "done" => EditSucceeded(r))
\* the text that line i must hold: that of the last edit of line i, else the original
ExpectedLine(original, i) ==
    LET targeting == {r \in EditsDone : args[r].startLine = i}
    IN  IF targeting = {} THEN original[i]
        ELSE args[CHOOSE r \in targeting : \A q \in targeting : q <= r].newContent

\* C26: after any sequence of successful sequential edits of one file, each
\* replacing a single line by a single-line text, the file has its original
\* number of lines, every edited line holds the text of the last edit that
\* targeted it and every other line holds its original text at its position.
C26_RepeatedEditsKeepLines ==
    (BetweenEdits /\ EditsDone # {}) =>
        LET original == Split(decode(atCall[1][TargetFile]))
            current == Split(decode(files[TargetFile]))
        IN  /\ Len(current) = Len(original)
            /\ \A i \in 1..Len(original) : current[i] = ExpectedLine(original, i)

\* ---- concurrent edits of one path
\* no create or edit other than r and q has been invoked
OnlyWriters(r, q) ==
    \A x \in Requests \ {r, q} : pc[x] = "idle" \/ args[x].op = "read"
\* both edits succeeded on different lines, q wrote last, and the line that r
\* edited is in the file as r found it
LostUpdate(r, q) ==
    /\ r # q /\ EditSucceeded(r) /\ EditSucceeded(q)
    /\ args[r].startLine # args[q].startLine
    /\ files[TargetFile] = local[q].iso8859Content
    /\ Split(decode(files[TargetFile]))[args[r].startLine]
           = Split(decode(local[r].fileBuffer))[args[r].startLine]

\* C23: two concurrent edits of one path are not serialized: both can succeed
\* with only one edit's change in the final file; whenever that happens each of
\* the two edits has left a backup that holds the content it read before editing.
C23_LostUpdateKeepsBackups ==
    \A r, q \in Requests : (LostUpdate(r, q) /\ OnlyWriters(r, q)) =>
        \A x \in {r, q} :
            /\ response[x].backup_path \in DOMAIN backups
            /\ backups[response[x].backup_path] = local[x].fileBuffer

\* both edits returned success and the first one's change is lost
C23_Witness ==
    \E r, q \in Requests :
        /\ LostUpdate(r, q) /\ OnlyWriters(r, q)
        /\ local[r].fileBuffer = local[q].fileBuffer
        /\ files[TargetFile] # local[r].iso8859Content

\* C28: an edit of an existing file whose line range fails validation has made
\* its backup when it returns the error: in that step the backup store gains
\* exactly one record, with the file's current content, and no file changes.
C28_InvalidRangeAddsOneBackup ==
    [][\A r \in Requests :
          (/\ pc[r] = "idle" /\ pc'[r] = "done" /\ args'[r].op = "edit"
           /\ local'[r].rangeValidation.error # NoError)
              => /\ response'[r].isError /\ files' = files
                 /\ backups'[local'[r].backupPath] = files[local'[r].normalizedPath]
                 /\ Cardinality(DOMAIN backups' \ DOMAIN backups) = 1]_vars

\* C29: every file the system creates or modifies, the targets of create and
\* edit, their temporary files and the backups of edit, lies inside the
\* configured base directory.
C29_WritesStayInSandbox ==
    LET base == resolve(host.cwd, host.BASE_PATH)
    IN  pc[1] # "idle" =>
            /\ \A p \in DOMAIN files :
                  (p \notin DOMAIN atCall[1] \/ files[p] # atCall[1][p]) => WithinDir(p, base)
            /\ \A b \in DOMAIN backups : WithinDir(b.dir, base)

\* ---- verification specification: concurrent creates and edits of one path
\* with texts that contain the corruption marker or not
VerifyTexts == {<<"x">>, Marker}

InitVerify ==
    /\ InitCommon
    /\ host.EOL = BareLF
    /\ files = Put(EmptyFs, TargetFile, encode(<<"a", LF, "b">>))

VerifyWrite ==
    \E r \in Requests, t \in VerifyTexts : Arrived(r) /\ handleWriteFileIso(r, TargetFile, t)

VerifyEdit ==
    \E r \in Requests, t \in VerifyTexts :
        Arrived(r) /\ handleEditFileIso(r, TargetFile, 1, 1, t, TRUE, TRUE)

VerifyAtomicWrite ==
    \E r \in Requests : OpenTmp(r, TRUE) \/ WriteTmp(r, TRUE) \/ RenameTmp(r, TRUE) \/ Complete(r, TRUE)

NextVerify == VerifyWrite \/ VerifyEdit \/ VerifyAtomicWrite

SpecVerify == InitVerify /\ [][NextVerify]_vars

====
